---- MODULE Spec2Model ----
(***************************************************************************)
(* A model of crates/ra_project_model/src/cargo_workspace.rs:              *)
(* CargoWorkspace::from_cargo_metadata, load_extern_resources,             *)
(* TargetKind::new, CargoWorkspace::package_flag and is_dylib.             *)
(*                                                                         *)
(* Conventions.  Strings the code inspects (target kind labels, package    *)
(* names and versions) are sequences of one-character strings, so that     *)
(* str::contains and format! are computed, not assumed.  Opaque values     *)
(* (package ids, paths of out dirs, feature names, cfg flags) are TLA+     *)
(* strings.  Option<T> is <<>> for None and <<v>> for Some(v).  An         *)
(* Idx<T> of an Arena<T> is the 1-based position in the sequence that      *)
(* models the arena (the code's raw index plus one).  Path-valued fields   *)
(* that no operation of this file reads back (manifest, root,              *)
(* workspace_root) are left out of the records.                            *)
(***************************************************************************)
EXTENDS Naturals, Sequences, FiniteSets, TLC

VARIABLES
    cargo_features,         \* the &CargoConfig argument
    meta_out,               \* the document `cargo metadata` prints when it succeeds
    check_out,              \* the messages on the stdout of `cargo check`
    pc,                     \* position inside from_cargo_metadata
    meta_exit,              \* how the primary invocation ended
    check_exit,             \* how the check invocation ended
    meta_features,          \* the CargoOpt handed to MetadataCommand::features
    check_args,             \* the argument vector of the check command
    out_dir_by_id,          \* local of from_cargo_metadata
    cfgs,                   \* local of from_cargo_metadata
    proc_macro_dylib_paths, \* local of from_cargo_metadata
    pkg_by_id,              \* local of from_cargo_metadata
    packages,               \* local Arena<PackageData>
    targets,                \* local Arena<TargetData>
    next_pkg,               \* position of the `for meta_pkg` loop
    next_node,              \* position of the `for node` loop
    log,                    \* what log::error! has written
    result,                 \* the value from_cargo_metadata returns
    flag                    \* the last package_flag call: <<Package, String>>

vars == <<cargo_features, meta_out, check_out, pc, meta_exit, check_exit,
          meta_features, check_args, out_dir_by_id, cfgs,
          proc_macro_dylib_paths, pkg_by_id, packages, targets, next_pkg,
          next_node, log, result, flag>>

(***************************************************************************)
(* Bounds of the model.                                                    *)
(***************************************************************************)
MaxPkgs == 3
MaxGraphPkgs == 2
MaxNodes == 2
MaxEdges == 2
MaxLabels == 3
MaxFeatures == 2
MaxEvents == 3

(***************************************************************************)
(* Generic helpers.                                                        *)
(***************************************************************************)
SeqsUpTo(S, n) == UNION {[1..k -> S] : k \in 0..n}

Range(s) == {s[k] : k \in 1..Len(s)}

IsInjective(s) == \A a, b \in 1..Len(s) : s[a] = s[b] => a = b

\* FxHashMap::insert: a later insert for a key replaces the earlier value.
MapInsert(m, k, v) == [x \in DOMAIN m \cup {k} |-> IF x = k THEN v ELSE m[x]]

\* FxHashMap::default()
EmptyMap == [x \in {} |-> <<>>]

\* map.get(&k).cloned() as an Option
MapGet(m, k) == IF k \in DOMAIN m THEN <<m[k]>> ELSE <<>>

(***************************************************************************)
(* Character strings.                                                      *)
(***************************************************************************)
S_bin == <<"b", "i", "n">>
S_test == <<"t", "e", "s", "t">>
S_bench == <<"b", "e", "n", "c", "h">>
S_example == <<"e", "x", "a", "m", "p", "l", "e">>
S_proc_macro == <<"p", "r", "o", "c", "-", "m", "a", "c", "r", "o">>
S_lib == <<"l", "i", "b">>
S_rlib == <<"r", "l", "i", "b">>
S_cdylib == <<"c", "d", "y", "l", "i", "b">>
S_binlib == <<"b", "i", "n", "l", "i", "b">>
S_custom_build == <<"c", "u", "s", "t", "o", "m", "-", "b", "u", "i", "l", "d">>
S_li == <<"l", "i">>

\* str::contains(pat): pat occurs at some offset of s, scanning from the left.
RECURSIVE ContainsFrom(_, _, _)
ContainsFrom(s, pat, from) ==
    IF from + Len(pat) - 1 > Len(s) THEN FALSE
    ELSE IF SubSeq(s, from, from + Len(pat) - 1) = pat THEN TRUE
    ELSE ContainsFrom(s, pat, from + 1)

StrContains(s, pat) == ContainsFrom(s, pat, 1)

(***************************************************************************)
(* TargetKind::new (lines 120-135): the loop returns at the first label    *)
(* whose match arm is not `continue`.                                      *)
(***************************************************************************)
RECURSIVE TargetKindFrom(_, _)
TargetKindFrom(kinds, k) ==
    IF k > Len(kinds) THEN "Other"
    ELSE LET kind == kinds[k] IN
         IF kind = S_bin THEN "Bin"
         ELSE IF kind = S_test THEN "Test"
         ELSE IF kind = S_bench THEN "Bench"
         ELSE IF kind = S_example THEN "Example"
         ELSE IF kind = S_proc_macro THEN "Lib"
         ELSE IF StrContains(kind, S_lib) THEN "Lib"
         ELSE TargetKindFrom(kinds, k + 1)

TargetKindNewFirstOnly(kinds) ==
    IF kinds = <<>> THEN "Other"
    ELSE LET kind == kinds[1] IN
         IF kind = S_bin THEN "Bin"
         ELSE IF kind = S_test THEN "Test"
         ELSE IF kind = S_bench THEN "Bench"
         ELSE IF kind = S_example THEN "Example"
         ELSE IF kind = S_proc_macro THEN "Lib"
         ELSE IF StrContains(kind, S_lib) THEN "Lib"
         ELSE "Other"

TargetKindNew(kinds) == TargetKindFrom(kinds, 1)

(***************************************************************************)
(* Edition::from_str (ra_db, outside this file): "2015" and "2018" parse.  *)
(***************************************************************************)
EditionParse(edition) ==
    IF edition = "2015" THEN <<"Edition2015">>
    ELSE IF edition = "2018" THEN <<"Edition2018">>
    ELSE <<>>

(***************************************************************************)
(* is_dylib (lines 335-340).  A path is [stem, ext]; ext is the Option     *)
(* that Path::extension returns.                                           *)
(***************************************************************************)
ToLowercase(ext) ==
    CASE ext = "SO" -> "so"
      [] ext = "DLL" -> "dll"
      [] ext = "Dylib" -> "dylib"
      [] OTHER -> ext

is_dylib(path) ==
    IF path.ext = <<>> THEN FALSE
    ELSE ToLowercase(path.ext[1]) \in {"dll", "dylib", "so"}

\* Iterator::find(|name| is_dylib(name)) over message.filenames
RECURSIVE FindDylib(_, _)
FindDylib(filenames, k) ==
    IF k > Len(filenames) THEN <<>>
    ELSE IF is_dylib(filenames[k]) THEN <<filenames[k]>>
    ELSE FindDylib(filenames, k + 1)

(***************************************************************************)
(* Feature selection of the two invocations.                               *)
(***************************************************************************)
CargoOpt(opt, features) == [opt |-> opt, features |-> features]

\* lines 151-159; "Unset" stands for MetadataCommand::features never called
MetaFeaturesNoDefaultFirst(cfg) ==
    IF cfg.no_default_features THEN CargoOpt("NoDefaultFeatures", <<>>)
    ELSE IF cfg.all_features THEN CargoOpt("AllFeatures", <<>>)
    ELSE IF cfg.features # <<>> THEN CargoOpt("SomeFeatures", cfg.features)
    ELSE CargoOpt("Unset", <<>>)

MetaFeatures(cfg) ==
    IF cfg.all_features THEN CargoOpt("AllFeatures", <<>>)
    ELSE IF cfg.no_default_features THEN CargoOpt("NoDefaultFeatures", <<>>)
    ELSE IF cfg.features # <<>> THEN CargoOpt("SomeFeatures", cfg.features)
    ELSE CargoOpt("Unset", <<>>)

\* lines 291-292
CheckArgsPrefix == <<"check", "--message-format=json", "--manifest-path", "Cargo.toml">>

\* lines 291-301
CheckArgs(cfg) ==
    CheckArgsPrefix \o
        (IF cfg.all_features THEN <<"--all-features">>
         ELSE IF cfg.no_default_features THEN <<"--no-default-features">>
         ELSE cfg.features)

(***************************************************************************)
(* load_extern_resources, lines 305-331: the fold over the parsed stream.  *)
(* A stream item is [tag, package_id, out_dir, cfgs, kind, filenames];     *)
(* tag "Err" is an item that did not parse.                                *)
(***************************************************************************)
ExternResources(out_dirs, proc_dylib_paths, res_cfgs) ==
    [out_dirs |-> out_dirs, proc_dylib_paths |-> proc_dylib_paths, cfgs |-> res_cfgs]

\* as OnMessage, with an earlier entry of the package kept
OnMessageKeepFirst(res, message) ==
    IF message.tag = "BuildScriptExecuted" /\ message.package_id \in DOMAIN res.out_dirs
    THEN res
    ELSE IF message.tag = "BuildScriptExecuted"
    THEN ExternResources(MapInsert(res.out_dirs, message.package_id, message.out_dir),
                         res.proc_dylib_paths,
                         MapInsert(res.cfgs, message.package_id, message.cfgs))
    ELSE IF message.tag = "CompilerArtifact"
    THEN IF S_proc_macro \in Range(message.kind)
              /\ FindDylib(message.filenames, 1) # <<>>
         THEN ExternResources(res.out_dirs,
                              MapInsert(res.proc_dylib_paths, message.package_id,
                                        FindDylib(message.filenames, 1)[1]),
                              res.cfgs)
         ELSE res
    ELSE res

\* lines 308-329: one iteration of the loop
OnMessage(res, message) ==
    IF message.tag = "BuildScriptExecuted"
    THEN ExternResources(MapInsert(res.out_dirs, message.package_id, message.out_dir),
                         res.proc_dylib_paths,
                         MapInsert(res.cfgs, message.package_id, message.cfgs))
    ELSE IF message.tag = "CompilerArtifact"
    THEN IF S_proc_macro \in Range(message.kind)
              /\ FindDylib(message.filenames, 1) # <<>>
         THEN ExternResources(res.out_dirs,
                              MapInsert(res.proc_dylib_paths, message.package_id,
                                        FindDylib(message.filenames, 1)[1]),
                              res.cfgs)
         ELSE res
    ELSE res

RECURSIVE ParseStream(_, _, _)
ParseStream(res, stream, k) ==
    IF k > Len(stream) THEN res
    ELSE ParseStream(OnMessage(res, stream[k]), stream, k + 1)

\* lines 305-331
LoadedResources(stream) ==
    ParseStream(ExternResources(EmptyMap, EmptyMap, EmptyMap), stream, 1)

(***************************************************************************)
(* from_cargo_metadata.                                                    *)
(***************************************************************************)
Pending == [tag |-> "Pending", error |-> "", packages |-> <<>>, targets |-> <<>>]

Err(error) == [tag |-> "Err", error |-> error, packages |-> <<>>, targets |-> <<>>]

\* line 249
Ok(pkgs, tgts) == [tag |-> "Ok", error |-> "", packages |-> pkgs, targets |-> tgts]

\* lines 148-168: the primary query
MetaExec ==
    /\ pc = "start"
    /\ meta_features' = MetaFeatures(cargo_features)
    /\ \E outcome \in {"ok", "spawn_failed", "nonzero_exit", "unparsable"} :
         /\ meta_exit' = outcome
         /\ IF outcome = "ok"
            THEN pc' = "extern" /\ UNCHANGED result
            ELSE pc' = "done" /\ result' = Err("Failed to run cargo metadata")
    /\ UNCHANGED <<flag, cargo_features, meta_out, check_out, check_exit, check_args,
                   out_dir_by_id, cfgs, proc_macro_dylib_paths, pkg_by_id,
                   packages, targets, next_pkg, next_node, log>>

\* as LoadExternResources, with the error of cmd.output() swallowed
LoadExternResourcesNoPropagate ==
    /\ pc = "extern"
    /\ cargo_features.load_out_dirs_from_check
    /\ check_args' = CheckArgs(cargo_features)
    /\ \E outcome \in {"ok", "spawn_failed", "nonzero_exit"} :
         /\ check_exit' = outcome
         /\ LET resources == IF outcome = "spawn_failed" THEN LoadedResources(<<>>)
                             ELSE LoadedResources(check_out) IN
            /\ out_dir_by_id' = resources.out_dirs
            /\ cfgs' = resources.cfgs
            /\ proc_macro_dylib_paths' = resources.proc_dylib_paths
            /\ pc' = "build"
            /\ UNCHANGED result
    /\ UNCHANGED <<flag, cargo_features, meta_out, check_out, meta_exit, meta_features,
                   pkg_by_id, packages, targets, next_pkg, next_node, log>>

\* lines 170-178 with load_out_dirs_from_check set, and lines 287-332
LoadExternResources ==
    /\ pc = "extern"
    /\ cargo_features.load_out_dirs_from_check
    /\ check_args' = CheckArgs(cargo_features)
    /\ \E outcome \in {"ok", "spawn_failed", "nonzero_exit"} :
         /\ check_exit' = outcome
         /\ IF outcome = "spawn_failed"
            THEN /\ pc' = "done"
                 /\ result' = Err("cmd.output() failed")
                 /\ UNCHANGED <<out_dir_by_id, cfgs, proc_macro_dylib_paths>>
            ELSE LET resources == LoadedResources(check_out) IN
                 /\ out_dir_by_id' = resources.out_dirs
                 /\ cfgs' = resources.cfgs
                 /\ proc_macro_dylib_paths' = resources.proc_dylib_paths
                 /\ pc' = "build"
                 /\ UNCHANGED result
    /\ UNCHANGED <<flag, cargo_features, meta_out, check_out, meta_exit, meta_features,
                   pkg_by_id, packages, targets, next_pkg, next_node, log>>

\* lines 170-173 with load_out_dirs_from_check clear: the three maps stay empty
SkipExternResources ==
    /\ pc = "extern"
    /\ ~cargo_features.load_out_dirs_from_check
    /\ pc' = "build"
    /\ UNCHANGED <<flag, cargo_features, meta_out, check_out, meta_exit, check_exit,
                   meta_features, check_args, out_dir_by_id, cfgs,
                   proc_macro_dylib_paths, pkg_by_id, packages, targets,
                   next_pkg, next_node, log, result>>

\* lines 209-216: the TargetData of one target record of package pkg
TargetData(pkg, meta_tgt) ==
    [package |-> pkg,
     name |-> meta_tgt.name,
     kind |-> TargetKindNew(meta_tgt.kind),
     is_proc_macro |-> (meta_tgt.kind = <<S_proc_macro>>)]

\* lines 193-205
PackageData(meta_pkg, edition, tgts) ==
    [name |-> meta_pkg.name,
     version |-> meta_pkg.version,
     targets |-> tgts,
     is_member |-> (meta_pkg.id \in meta_out.workspace_members),
     edition |-> edition,
     dependencies |-> <<>>,
     features |-> <<>>,
     cfgs |-> IF meta_pkg.id \in DOMAIN cfgs THEN cfgs[meta_pkg.id] ELSE <<>>,
     out_dir |-> MapGet(out_dir_by_id, meta_pkg.id),
     proc_macro_dylib_path |-> MapGet(proc_macro_dylib_paths, meta_pkg.id)]

\* as AllocPackage, with a record whose edition does not parse passed over
AllocPackageSkipBadEdition ==
    /\ pc = "build"
    /\ next_pkg <= Len(meta_out.packages)
    /\ LET meta_pkg == meta_out.packages[next_pkg]
           edition == EditionParse(meta_pkg.edition)
           pkg == Len(packages) + 1
           n == Len(meta_pkg.targets)
           tgts == [k \in 1..n |-> Len(targets) + k]
       IN IF edition = <<>>
          THEN /\ next_pkg' = next_pkg + 1
               /\ UNCHANGED <<packages, targets, pkg_by_id, pc, result>>
          ELSE /\ packages' = Append(packages, PackageData(meta_pkg, edition[1], tgts))
               /\ pkg_by_id' = MapInsert(pkg_by_id, meta_pkg.id, pkg)
               /\ targets' = targets \o [k \in 1..n |-> TargetData(pkg, meta_pkg.targets[k])]
               /\ next_pkg' = next_pkg + 1
               /\ UNCHANGED <<pc, result>>
    /\ UNCHANGED <<flag, cargo_features, meta_out, check_out, meta_exit, check_exit,
                   meta_features, check_args, out_dir_by_id, cfgs,
                   proc_macro_dylib_paths, next_node, log>>

\* lines 186-219: one iteration of `for meta_pkg in meta.packages`
AllocPackage ==
    /\ pc = "build"
    /\ next_pkg <= Len(meta_out.packages)
    /\ LET meta_pkg == meta_out.packages[next_pkg]
           edition == EditionParse(meta_pkg.edition)
           pkg == Len(packages) + 1
           n == Len(meta_pkg.targets)
           tgts == [k \in 1..n |-> Len(targets) + k]
       IN IF edition = <<>>
          THEN /\ pc' = "done"
               /\ result' = Err("Failed to parse edition")
               /\ UNCHANGED <<packages, targets, pkg_by_id, next_pkg>>
          ELSE /\ packages' = Append(packages, PackageData(meta_pkg, edition[1], tgts))
               /\ pkg_by_id' = MapInsert(pkg_by_id, meta_pkg.id, pkg)
               /\ targets' = targets \o [k \in 1..n |-> TargetData(pkg, meta_pkg.targets[k])]
               /\ next_pkg' = next_pkg + 1
               /\ UNCHANGED <<pc, result>>
    /\ UNCHANGED <<flag, cargo_features, meta_out, check_out, meta_exit, check_exit,
                   meta_features, check_args, out_dir_by_id, cfgs,
                   proc_macro_dylib_paths, next_node, log>>

\* as ResolvedDeps, with the last edge of the node never looked at
RECURSIVE ResolvedDepsSkipLast(_, _, _)
ResolvedDepsSkipLast(deps, by_id, k) ==
    IF k >= Len(deps) THEN <<>>
    ELSE IF deps[k].pkg \in DOMAIN by_id
    THEN <<[name |-> deps[k].name, pkg |-> by_id[deps[k].pkg]]>>
             \o ResolvedDepsSkipLast(deps, by_id, k + 1)
    ELSE ResolvedDepsSkipLast(deps, by_id, k + 1)

\* as ResolvedDeps, with `break` for `continue` at an unresolvable edge
RECURSIVE ResolvedDepsBreak(_, _, _)
ResolvedDepsBreak(deps, by_id, k) ==
    IF k > Len(deps) THEN <<>>
    ELSE IF deps[k].pkg \in DOMAIN by_id
    THEN <<[name |-> deps[k].name, pkg |-> by_id[deps[k].pkg]]>>
             \o ResolvedDepsBreak(deps, by_id, k + 1)
    ELSE <<>>

\* as ResolvedDeps, with an unresolvable edge kept under a fresh index
RECURSIVE ResolvedDepsKeepDangling(_, _, _)
ResolvedDepsKeepDangling(deps, by_id, k) ==
    IF k > Len(deps) THEN <<>>
    ELSE <<[name |-> deps[k].name,
            pkg |-> IF deps[k].pkg \in DOMAIN by_id THEN by_id[deps[k].pkg]
                    ELSE Cardinality(DOMAIN by_id) + 1]>>
             \o ResolvedDepsKeepDangling(deps, by_id, k + 1)

\* lines 232-245: the dependencies pushed for node.deps, in order
RECURSIVE ResolvedDeps(_, _, _)
ResolvedDeps(deps, by_id, k) ==
    IF k > Len(deps) THEN <<>>
    ELSE IF deps[k].pkg \in DOMAIN by_id
    THEN <<[name |-> deps[k].name, pkg |-> by_id[deps[k].pkg]]>>
             \o ResolvedDeps(deps, by_id, k + 1)
    ELSE ResolvedDeps(deps, by_id, k + 1)

\* lines 235-241: the errors logged for node.deps, in order
RECURSIVE DepErrors(_, _, _)
DepErrors(deps, by_id, k) ==
    IF k > Len(deps) THEN <<>>
    ELSE IF deps[k].pkg \in DOMAIN by_id
    THEN DepErrors(deps, by_id, k + 1)
    ELSE <<<<"Dep node id do not match", deps[k].pkg>>>> \o DepErrors(deps, by_id, k + 1)

\* as ResolveNode, with `break` for `continue` at an unresolvable node
ResolveNodeBreak ==
    /\ pc = "build"
    /\ next_pkg > Len(meta_out.packages)
    /\ next_node <= Len(meta_out.resolve)
    /\ LET node == meta_out.resolve[next_node] IN
       IF node.id \notin DOMAIN pkg_by_id
       THEN /\ log' = Append(log, <<"Node id do not match", node.id>>)
            /\ next_node' = Len(meta_out.resolve) + 1
            /\ UNCHANGED packages
       ELSE LET source == pkg_by_id[node.id]
                data == packages[source]
            IN /\ packages' =
                    [packages EXCEPT ![source] =
                        [data EXCEPT
                            !.dependencies = @ \o ResolvedDeps(node.deps, pkg_by_id, 1),
                            !.features = @ \o node.features]]
               /\ log' = log \o DepErrors(node.deps, pkg_by_id, 1)
               /\ next_node' = next_node + 1
    /\ UNCHANGED <<flag, cargo_features, meta_out, check_out, pc, meta_exit, check_exit,
                   meta_features, check_args, out_dir_by_id, cfgs,
                   proc_macro_dylib_paths, pkg_by_id, targets, next_pkg, result>>

\* lines 220-247: one iteration of `for node in resolve.nodes`
ResolveNode ==
    /\ pc = "build"
    /\ next_pkg > Len(meta_out.packages)
    /\ next_node <= Len(meta_out.resolve)
    /\ LET node == meta_out.resolve[next_node] IN
       IF node.id \notin DOMAIN pkg_by_id
       THEN /\ log' = Append(log, <<"Node id do not match", node.id>>)
            /\ UNCHANGED packages
       ELSE LET source == pkg_by_id[node.id]
                data == packages[source]
            IN /\ packages' =
                    [packages EXCEPT ![source] =
                        [data EXCEPT
                            !.dependencies = @ \o ResolvedDeps(node.deps, pkg_by_id, 1),
                            !.features = @ \o node.features]]
               /\ log' = log \o DepErrors(node.deps, pkg_by_id, 1)
    /\ next_node' = next_node + 1
    /\ UNCHANGED <<flag, cargo_features, meta_out, check_out, pc, meta_exit, check_exit,
                   meta_features, check_args, out_dir_by_id, cfgs,
                   proc_macro_dylib_paths, pkg_by_id, targets, next_pkg, result>>

\* line 249
Finish ==
    /\ pc = "build"
    /\ next_pkg > Len(meta_out.packages)
    /\ next_node > Len(meta_out.resolve)
    /\ result' = Ok(packages, targets)
    /\ pc' = "done"
    /\ UNCHANGED <<flag, cargo_features, meta_out, check_out, meta_exit, check_exit,
                   meta_features, check_args, out_dir_by_id, cfgs,
                   proc_macro_dylib_paths, pkg_by_id, packages, targets,
                   next_pkg, next_node, log>>

(***************************************************************************)
(* CargoWorkspace::package_flag and is_unique (lines 267-277), on a        *)
(* returned workspace ws and the PackageData at index pkg.                 *)
(***************************************************************************)
is_unique_Any(ws, name) ==
    Cardinality({p \in 1..Len(ws.packages) : ws.packages[p].name = name}) >= 1

is_unique(ws, name) ==
    Cardinality({p \in 1..Len(ws.packages) : ws.packages[p].name = name}) = 1

package_flag(ws, package) ==
    IF is_unique(ws, package.name)
    THEN package.name
    ELSE package.name \o <<":">> \o package.version

\* a call of package_flag on the workspace returned, for its Package p
PackageFlag ==
    /\ pc = "done"
    /\ result.tag = "Ok"
    /\ \E p \in 1..Len(result.packages) :
          flag' = <<p, package_flag(result, result.packages[p])>>
    /\ UNCHANGED <<cargo_features, meta_out, check_out, pc, meta_exit, check_exit,
                   meta_features, check_args, out_dir_by_id, cfgs,
                   proc_macro_dylib_paths, pkg_by_id, packages, targets,
                   next_pkg, next_node, log, result>>

Next ==
    \/ MetaExec
    \/ LoadExternResources
    \/ SkipExternResources
    \/ AllocPackage
    \/ ResolveNode
    \/ Finish
    \/ PackageFlag

(***************************************************************************)
(* Inputs.  Package ids are opaque; the model takes them from 1..3, so an  *)
(* id of the dependency graph or of a check message resolves exactly when  *)
(* the package list holds a record with it.  cargo gives every package     *)
(* record its own id.                                                      *)
(***************************************************************************)
PkgIds == 1..3

S_foo == <<"f", "o", "o">>
S_bar == <<"b", "a", "r">>
S_baz == <<"b", "a", "z">>
S_v1 == <<"1", ".", "0">>
S_v2 == <<"2", ".", "0">>

MetaTarget(name, kind) == [name |-> name, kind |-> kind]

MetaPackage(id, name, version, edition, tgts) ==
    [id |-> id, name |-> name, version |-> version, edition |-> edition,
     targets |-> tgts]

DefaultName(id) == IF id = 1 THEN S_foo ELSE IF id = 2 THEN S_bar ELSE S_baz

DefaultTargets(id) ==
    IF id = 1 THEN <<MetaTarget("foo", <<S_lib>>), MetaTarget("main", <<S_bin>>)>>
    ELSE IF id = 2 THEN <<MetaTarget("bar", <<S_proc_macro>>)>>
    ELSE <<>>

DefaultPackage(id) ==
    MetaPackage(id, DefaultName(id), S_v1, "2018", DefaultTargets(id))

DefaultPackages(ids) == [k \in 1..Len(ids) |-> DefaultPackage(ids[k])]

Alias(id) == IF id = 1 THEN "dep_one" ELSE IF id = 2 THEN "dep_two" ELSE "dep_three"

Dep(id) == [pkg |-> id, name |-> Alias(id)]

NodeFeatures(id) ==
    IF id = 1 THEN <<"default", "std">> ELSE IF id = 2 THEN <<"derive">> ELSE <<"alloc">>

\* cuts: which node each edge belongs to; edges of one node are consecutive
Cuts(n_edges, n_nodes) ==
    {c \in [1..n_edges -> 1..n_nodes] :
        \A a, b \in 1..n_edges : a < b => c[a] <= c[b]}

Graph(ids, edge_targets, cut) ==
    [k \in 1..Len(ids) |->
        LET lo == Cardinality({e \in 1..Len(edge_targets) : cut[e] < k})
            hi == Cardinality({e \in 1..Len(edge_targets) : cut[e] <= k})
        IN [id |-> ids[k],
            deps |-> [e \in 1..(hi - lo) |-> Dep(edge_targets[lo + e])],
            features |-> NodeFeatures(ids[k])]]

\* every graph of at most MaxNodes nodes and MaxEdges edges over PkgIds; the
\* resolve section of cargo metadata holds one node for an id
Graphs ==
    UNION {UNION {{Graph(ids, es, cut) : cut \in Cuts(Len(es), Len(ids))} :
                     es \in SeqsUpTo(PkgIds, MaxEdges)} :
              ids \in {s \in SeqsUpTo(PkgIds, MaxNodes) : IsInjective(s)}}

Metadata(pkgs, resolve) ==
    [workspace_members |-> {1}, packages |-> pkgs, resolve |-> resolve]

Config(all, no_default, features, load) ==
    [no_default_features |-> no_default, all_features |-> all,
     features |-> features, load_out_dirs_from_check |-> load]

\* CargoConfig::default(), lines 63-73
DefaultConfig == Config(TRUE, FALSE, <<>>, FALSE)

Path(stem, ext) == [stem |-> stem, ext |-> ext]

Message(tag, id, out_dir, msg_cfgs, kind, filenames) ==
    [tag |-> tag, package_id |-> id, out_dir |-> out_dir, cfgs |-> msg_cfgs,
     kind |-> kind, filenames |-> filenames]

BuildScriptExecuted(id, out_dir, msg_cfgs) ==
    Message("BuildScriptExecuted", id, out_dir, msg_cfgs, <<>>, <<>>)

CompilerArtifact(id, kind, filenames) ==
    Message("CompilerArtifact", id, "", <<>>, kind, filenames)

OtherMessage(tag) == Message(tag, 0, "", <<>>, <<>>, <<>>)

\* a check run of a workspace whose package 2 is a proc macro with a build script
SampleStream ==
    <<BuildScriptExecuted(2, "target/out-2", <<"has_atomics">>),
      OtherMessage("Err"),
      CompilerArtifact(2, <<S_proc_macro>>,
                       <<Path("libbar", <<"rmeta">>), Path("libbar", <<"so">>)>>),
      OtherMessage("BuildFinished")>>

\* a graph with an unresolvable node and an unresolvable edge when 3 is no package
SampleGraph ==
    <<[id |-> 1,
       deps |-> <<Dep(2), Dep(3), [pkg |-> 2, name |-> "two_renamed"]>>,
       features |-> NodeFeatures(1)],
      [id |-> 3, deps |-> <<Dep(1)>>, features |-> NodeFeatures(3)]>>

InitLocals ==
    /\ pc = "start"
    /\ meta_exit = "not_run"
    /\ check_exit = "not_run"
    /\ meta_features = CargoOpt("Unset", <<>>)
    /\ check_args = <<>>
    /\ out_dir_by_id = EmptyMap
    /\ cfgs = EmptyMap
    /\ proc_macro_dylib_paths = EmptyMap
    /\ pkg_by_id = EmptyMap
    /\ packages = <<>>
    /\ targets = <<>>
    /\ next_pkg = 1
    /\ next_node = 1
    /\ log = <<>>
    /\ result = Pending
    /\ flag = <<>>

(***************************************************************************)
(* Spec: the dependency graph varies over default package records.         *)
(***************************************************************************)
GraphPkgIdLists == {ids \in SeqsUpTo(PkgIds, MaxGraphPkgs) : IsInjective(ids)}

Init ==
    /\ \/ /\ cargo_features = DefaultConfig
          /\ meta_out \in {Metadata(DefaultPackages(ids), g) :
                              ids \in GraphPkgIdLists, g \in Graphs}
       \/ /\ cargo_features = Config(TRUE, FALSE, <<>>, TRUE)
          /\ meta_out \in {Metadata(DefaultPackages(ids), SampleGraph) :
                              ids \in GraphPkgIdLists}
    /\ check_out = SampleStream
    /\ InitLocals

Spec == Init /\ [][Next]_vars

(***************************************************************************)
(* Vocabulary of the properties.                                           *)
(***************************************************************************)
Records == meta_out.packages

Nodes == meta_out.resolve

RecordIds == {Records[p].id : p \in 1..Len(Records)}

\* the position of the package record with this id
RecordOf(id) == CHOOSE p \in 1..Len(Records) : Records[p].id = id

EditionsRecognized ==
    \A p \in 1..Len(Records) : EditionParse(Records[p].edition) # <<>>

\* neither invocation failed to run and every edition is a recognized one
NoFatalError ==
    /\ meta_exit = "ok"
    /\ check_exit # "spawn_failed"
    /\ EditionsRecognized

NodeResolves(n) == Nodes[n].id \in RecordIds

EdgeResolves(n, e) == Nodes[n].deps[e].pkg \in RecordIds

AllResolve ==
    \A n \in 1..Len(Nodes) :
        NodeResolves(n) /\ \A e \in 1..Len(Nodes[n].deps) : EdgeResolves(n, e)

\* the edges of the graph, as <<node position, edge position>>
EdgeSlots ==
    UNION {{<<n, e>> : e \in 1..Len(Nodes[n].deps)} : n \in 1..Len(Nodes)}

SlotsFrom(id) == {s \in EdgeSlots : Nodes[s[1]].id = id}

EdgeAt(s) == Nodes[s[1]].deps[s[2]]

\* C1: when every node id and every edge target of the graph resolves and
\* nothing fatal happens, the call returns a workspace with one Package per
\* package record, in record order, and the dependencies of each Package are
\* exactly the edges of the graph whose source is that package: each edge
\* occurs there as often as in the graph, and nothing else does.
C1_AllEdgesOnce ==
    (pc = "done" /\ NoFatalError /\ AllResolve) =>
        /\ result.tag = "Ok"
        /\ Len(result.packages) = Len(Records)
        /\ \A p \in 1..Len(Records) :
              LET deps == result.packages[p].dependencies
                  mine == SlotsFrom(Records[p].id)
              IN /\ result.packages[p].name = Records[p].name
                 /\ Len(deps) = Cardinality(mine)
                 /\ \A s \in mine :
                       Cardinality({k \in 1..Len(deps) :
                                       /\ deps[k].name = EdgeAt(s).name
                                       /\ Records[deps[k].pkg].id = EdgeAt(s).pkg})
                       = Cardinality({t \in mine : EdgeAt(t) = EdgeAt(s)})

C1_Witness ==
    /\ pc = "done" /\ result.tag = "Ok" /\ AllResolve
    /\ Len(result.packages) = 2
    /\ Len(Nodes) = 2
    /\ \E p \in 1..2 : Len(result.packages[p].dependencies) = 2

\* the nodes of the graph that carry this id
NodesOf(id) == {n \in 1..Len(Nodes) : Nodes[n].id = id}

\* C2: a node whose id is no package record does not make the call fail and
\* leaves no trace in the workspace returned: a Package has the features of
\* the node that carries its id and as many dependencies as that node has
\* resolvable edges, and a Package that no node names has neither, whatever
\* the unresolvable nodes before or after list.
C2_UnresolvedNodeSkipped ==
    (pc = "done" /\ NoFatalError) =>
        /\ result.tag = "Ok"
        /\ Len(result.packages) = Len(Records)
        /\ next_node = Len(Nodes) + 1
        /\ \A p \in 1..Len(Records) :
              LET mine == NodesOf(Records[p].id) IN
              IF mine = {}
              THEN /\ result.packages[p].dependencies = <<>>
                   /\ result.packages[p].features = <<>>
              ELSE LET n == CHOOSE n \in mine : TRUE IN
                   /\ result.packages[p].features = Nodes[n].features
                   /\ Len(result.packages[p].dependencies) =
                          Cardinality({e \in 1..Len(Nodes[n].deps) : EdgeResolves(n, e)})

\* an unresolvable node with features and a resolvable edge, listed before a
\* resolved node whose edge reached its package
C2_Witness ==
    /\ pc = "done" /\ result.tag = "Ok"
    /\ \E n, m \in 1..Len(Nodes) :
          /\ n < m
          /\ ~NodeResolves(n)
          /\ Nodes[n].features # <<>>
          /\ \E e \in 1..Len(Nodes[n].deps) : EdgeResolves(n, e)
          /\ NodeResolves(m)
          /\ result.packages[RecordOf(Nodes[m].id)].dependencies # <<>>

EdgeKept(dep) == dep.pkg \in RecordIds

\* the step of the node loop over a resolved node
C3_Step ==
    (pc = "build" /\ next_node' = next_node + 1 /\ NodeResolves(next_node)) =>
        LET node == Nodes[next_node]
            src == RecordOf(node.id)
            kept == SelectSeq(node.deps, EdgeKept)
        IN /\ Len(packages') = Len(packages)
           /\ pc' = "build"
           /\ packages'[src].dependencies =
                  packages[src].dependencies
                      \o [k \in 1..Len(kept) |->
                             [name |-> kept[k].name, pkg |-> RecordOf(kept[k].pkg)]]
           /\ packages'[src].features = packages[src].features \o node.features
           /\ \A p \in 1..Len(packages) : p # src => packages'[p] = packages[p]

\* C3: processing a resolved node appends to its package, in the node's edge
\* order, one dependency for every edge whose target is a package record,
\* drops the other edges only, appends the node's features, and touches no
\* other package.
C3_UnresolvedEdgeDroppedAlone == [][C3_Step]_vars

\* a processed node with an unresolvable edge between two resolvable ones
C3_Witness ==
    /\ pc \in {"build", "done"}
    /\ \E n \in 1..Len(Nodes) :
          /\ n < next_node
          /\ NodeResolves(n)
          /\ \E e1, e2, e3 \in 1..Len(Nodes[n].deps) :
                /\ e1 < e2 /\ e2 < e3
                /\ EdgeResolves(n, e1) /\ ~EdgeResolves(n, e2) /\ EdgeResolves(n, e3)
          /\ Len(packages[RecordOf(Nodes[n].id)].dependencies) = 2

\* every index held by the arenas pkgs and tgts is one of their entries
RefIntegrity(pkgs, tgts) ==
    /\ \A p \in 1..Len(pkgs) :
          /\ \A k \in 1..Len(pkgs[p].dependencies) :
                pkgs[p].dependencies[k].pkg \in 1..Len(pkgs)
          /\ \A k \in 1..Len(pkgs[p].targets) :
                /\ pkgs[p].targets[k] \in 1..Len(tgts)
                /\ tgts[pkgs[p].targets[k]].package = p
    /\ \A t \in 1..Len(tgts) : tgts[t].package \in 1..Len(pkgs)

\* C4: in the workspace returned, and in the arenas while they are built,
\* every PackageDependency.pkg and every TargetData.package is the index of
\* a Package of the same arena, and every entry of a Package's targets is
\* the index of a Target whose package is that Package.
C4_ReferentialIntegrity ==
    /\ RefIntegrity(packages, targets)
    /\ RefIntegrity(result.packages, result.targets)
    /\ (result.tag = "Ok" => result.packages = packages /\ result.targets = targets)

\* a workspace returned from a graph with an unresolvable node and an
\* unresolvable edge, holding targets and dependencies
C4_Witness ==
    /\ pc = "done" /\ result.tag = "Ok"
    /\ \E n \in 1..Len(Nodes) : ~NodeResolves(n)
    /\ \E s \in EdgeSlots : NodeResolves(s[1]) /\ ~EdgeResolves(s[1], s[2])
    /\ Len(result.targets) >= 2
    /\ \E p \in 1..Len(result.packages) : result.packages[p].dependencies # <<>>

(***************************************************************************)
(* SpecPackages: names, versions and editions of the package records vary. *)
(***************************************************************************)
\* the id of the k-th record: the first two out of index order
IdAt(k) == IF k = 1 THEN 2 ELSE IF k = 2 THEN 1 ELSE k

PackageAttrs == {S_foo, S_bar} \X {S_v1, S_v2} \X {"2015", "2018", "2021"}

\* the records with these <<name, version, edition>>, in order
PackageList(attrs) ==
    [k \in 1..Len(attrs) |->
        MetaPackage(IdAt(k), attrs[k][1], attrs[k][2], attrs[k][3],
                    DefaultTargets(IdAt(k)))]

InitPackages ==
    /\ cargo_features \in {DefaultConfig, Config(TRUE, FALSE, <<>>, TRUE)}
    /\ \E n \in 0..MaxPkgs :
          \E attrs \in [1..n -> PackageAttrs] :
              meta_out = Metadata(PackageList(attrs), SampleGraph)
    /\ check_out = SampleStream
    /\ InitLocals

SpecPackages == InitPackages /\ [][Next]_vars

\* C5: a package_flag call on a Package of the workspace returned yields the
\* bare name when no other Package of the workspace has that name, and the
\* name, a colon and the version otherwise.
C5_PackageFlag ==
    flag # <<>> =>
        LET p == flag[1]
            data == result.packages[p]
            shared == \E q \in 1..Len(result.packages) :
                          q # p /\ result.packages[q].name = data.name
        IN /\ data.name = Records[p].name
           /\ data.version = Records[p].version
           /\ flag[2] = IF shared THEN data.name \o <<":">> \o data.version
                        ELSE data.name

\* the flag of one of two packages of a name, beside a third of another name
C5_Witness ==
    /\ flag # <<>>
    /\ Len(result.packages) = 3
    /\ \E q, r \in 1..3 :
          /\ q # flag[1] /\ r # flag[1] /\ q # r
          /\ result.packages[q].name = result.packages[flag[1]].name
          /\ result.packages[r].name # result.packages[flag[1]].name
    /\ Len(flag[2]) > Len(result.packages[flag[1]].name)

\* the position of the first record whose edition is not recognized
FirstBadEdition ==
    CHOOSE p \in 1..Len(Records) :
        /\ EditionParse(Records[p].edition) = <<>>
        /\ \A q \in 1..(p - 1) : EditionParse(Records[q].edition) # <<>>

\* C9: once both invocations have run, the call fails exactly when some
\* package record has an edition that is not recognized: it fails at the
\* first such record, wherever it stands and whatever was allocated before
\* it, and returns no workspace; unresolvable nodes and edges and malformed
\* messages of the check never make it fail.
C9_EditionErrorAborts ==
    (pc = "done" /\ meta_exit = "ok" /\ check_exit # "spawn_failed") =>
        IF EditionsRecognized
        THEN result.tag = "Ok" /\ Len(result.packages) = Len(Records)
        ELSE /\ result.tag = "Err"
             /\ result.error = "Failed to parse edition"
             /\ result.packages = <<>> /\ result.targets = <<>>
             /\ next_pkg = FirstBadEdition
             /\ Len(packages) = FirstBadEdition - 1

\* the third record fails after two packages and three targets were allocated
C9_Witness ==
    /\ pc = "done" /\ result.tag = "Err"
    /\ meta_exit = "ok"
    /\ Len(Records) = 3
    /\ Len(packages) = 2
    /\ Len(targets) = 3
    /\ ~EditionsRecognized
    /\ FirstBadEdition = 3

(***************************************************************************)
(* SpecKinds: the kind labels of a target vary.                            *)
(***************************************************************************)
Labels ==
    {S_bin, S_test, S_bench, S_example, S_proc_macro, S_lib, S_rlib, S_cdylib,
     S_binlib, S_custom_build, S_li}

InitKinds ==
    /\ cargo_features \in {DefaultConfig, Config(TRUE, FALSE, <<>>, TRUE)}
    /\ \E n \in 0..MaxLabels :
          \E kind \in [1..n -> Labels] :
              meta_out =
                  Metadata(<<MetaPackage(2, S_bar, S_v1, "2018",
                                         <<MetaTarget("bar", kind)>>),
                             DefaultPackage(1)>>,
                           SampleGraph)
    /\ check_out = SampleStream
    /\ InitLocals

SpecKinds == InitKinds /\ [][Next]_vars

\* the rules of the classification, label by label
RuleKinds ==
    {<<S_bin, "Bin">>, <<S_test, "Test">>, <<S_bench, "Bench">>,
     <<S_example, "Example">>, <<S_proc_macro, "Lib">>}

HasLib(label) ==
    \E k \in 1..Len(label) :
        k + 2 <= Len(label) /\ label[k] = "l" /\ label[k + 1] = "i" /\ label[k + 2] = "b"

Recognized(label) == HasLib(label) \/ \E r \in RuleKinds : r[1] = label

KindOfLabel(label) ==
    IF \E r \in RuleKinds : r[1] = label
    THEN (CHOOSE r \in RuleKinds : r[1] = label)[2]
    ELSE "Lib"

\* C6: the kind of every Target is the kind of the first label of its record
\* that some rule recognizes, whatever labels stand before and after it, and
\* Other exactly when no label of the record is recognized.
C6_FirstRecognizedLabel ==
    \A p \in 1..Len(packages) :
        \A k \in 1..Len(packages[p].targets) :
            LET labels == Records[p].targets[k].kind
                kind == targets[packages[p].targets[k]].kind
                hits == {h \in 1..Len(labels) : Recognized(labels[h])}
            IN IF hits = {}
               THEN kind = "Other"
               ELSE /\ kind # "Other"
                    /\ kind = KindOfLabel(labels[CHOOSE h \in hits :
                                                    \A g \in hits : h <= g])

\* a target whose recognized label follows an unrecognized one and precedes
\* a label of another kind
C6_Witness ==
    /\ targets # <<>>
    /\ LET labels == Records[1].targets[1].kind IN
       /\ Len(labels) = 3
       /\ ~Recognized(labels[1])
       /\ Recognized(labels[2])
       /\ Recognized(labels[3])
       /\ KindOfLabel(labels[2]) # KindOfLabel(labels[3])
       /\ targets[1].kind = KindOfLabel(labels[2])

(***************************************************************************)
(* SpecConfig: the feature configuration varies.                           *)
(***************************************************************************)
Configs ==
    {Config(all, no_default, features, load) :
        all \in BOOLEAN, no_default \in BOOLEAN,
        features \in SeqsUpTo({"serde", "std"}, MaxFeatures), load \in BOOLEAN}

InitConfig ==
    /\ cargo_features \in Configs
    /\ meta_out \in {Metadata(DefaultPackages(<<2, 1>>), SampleGraph),
                     Metadata(<<>>, <<>>)}
    /\ check_out \in {SampleStream, <<>>, <<OtherMessage("Err"), OtherMessage("Err")>>}
    /\ InitLocals

SpecConfig == InitConfig /\ [][Next]_vars

\* the selection the configuration asks for: <<mode, explicit feature list>>
Selection(cfg) ==
    IF cfg.all_features THEN <<"all", <<>>>>
    ELSE IF cfg.no_default_features THEN <<"no-default", <<>>>>
    ELSE <<"explicit", cfg.features>>

\* the selection a CargoOpt transmits; no option is an empty explicit list
SelectionOfOpt(o) ==
    IF o.opt = "AllFeatures" THEN <<"all", o.features>>
    ELSE IF o.opt = "NoDefaultFeatures" THEN <<"no-default", o.features>>
    ELSE <<"explicit", o.features>>

\* the selection an argument vector transmits, read off what follows the
\* manifest path
SelectionOfArgs(args) ==
    LET rest == SubSeq(args, Len(CheckArgsPrefix) + 1, Len(args)) IN
    IF rest # <<>> /\ rest[1] = "--all-features" THEN <<"all", Tail(rest)>>
    ELSE IF rest # <<>> /\ rest[1] = "--no-default-features" THEN <<"no-default", Tail(rest)>>
    ELSE <<"explicit", rest>>

\* C7: each invocation that ran transmitted one selection only, the one the
\* precedence all-features, then no-default-features, then the explicit list
\* picks from the configuration; so both invocations transmit the same.
C7_FeaturePrecedence ==
    /\ meta_exit # "not_run" =>
          SelectionOfOpt(meta_features) = Selection(cargo_features)
    /\ check_exit # "not_run" =>
          /\ SelectionOfArgs(check_args) = Selection(cargo_features)
          /\ SelectionOfArgs(check_args) = SelectionOfOpt(meta_features)

\* both invocations ran for a configuration that sets no_default_features and
\* names features, without all_features
C7_Witness ==
    /\ meta_exit = "ok" /\ check_exit = "ok"
    /\ ~cargo_features.all_features
    /\ cargo_features.no_default_features
    /\ Len(cargo_features.features) = 2
    /\ check_args = CheckArgsPrefix \o <<"--no-default-features">>

MetaFailed == meta_exit \in {"spawn_failed", "nonzero_exit", "unparsable"}

\* the stdout of the check holds messages, none of which parses
CheckUnparsable ==
    /\ check_out # <<>>
    /\ \A k \in 1..Len(check_out) : check_out[k].tag = "Err"

\* C8 as stated: a primary or check invocation that does not start, exits
\* non-zero or prints what cannot be parsed makes the call return an error.
C8_AsStated ==
    (/\ pc = "done"
     /\ \/ MetaFailed
        \/ check_exit \in {"spawn_failed", "nonzero_exit"}
        \/ (check_exit = "ok" /\ CheckUnparsable))
        => result.tag = "Err"

\* C8, amended: the call returns an error and no workspace when the primary
\* query does not start, exits non-zero or prints what cannot be parsed, and
\* when the check does not start or its output cannot be read; the exit
\* status of a check that ran and messages that do not parse are not errors.
C8_FetchErrorFatal ==
    pc = "done" =>
        /\ (MetaFailed \/ check_exit = "spawn_failed") =>
              /\ result.tag = "Err"
              /\ result.packages = <<>> /\ result.targets = <<>>
              /\ packages = <<>>
        /\ (meta_exit = "ok" /\ check_exit \in {"ok", "nonzero_exit"}
                /\ EditionsRecognized) => result.tag = "Ok"

\* the check did not start, for a query that listed packages
C8_Witness ==
    /\ pc = "done"
    /\ check_exit = "spawn_failed"
    /\ result.tag = "Err"
    /\ Records # <<>>

(***************************************************************************)
(* SpecEvents: the messages of the check vary.                             *)
(***************************************************************************)
Events ==
    {BuildScriptExecuted(id, payload[1], payload[2]) :
        id \in {1, 2},
        payload \in {<<"target/out-a", <<"cfg_a">>>>,
                     <<"target/out-b", <<"cfg_b", "cfg_c">>>>}}
    \cup {OtherMessage("Err"), OtherMessage("TextLine"),
          CompilerArtifact(2, <<S_proc_macro>>,
                           <<Path("libbar", <<"rmeta">>), Path("libbar", <<"so">>)>>)}

InitEvents ==
    /\ cargo_features \in {DefaultConfig, Config(TRUE, FALSE, <<>>, TRUE)}
    /\ meta_out \in {Metadata(DefaultPackages(ids), SampleGraph) :
                        ids \in {<<2, 1>>, <<1, 3>>, <<>>}}
    /\ \E n \in 0..MaxEvents : check_out \in [1..n -> Events]
    /\ InitLocals

SpecEvents == InitEvents /\ [][Next]_vars

\* the build-script-executed messages that carry this id
ScriptRuns(id) ==
    {k \in 1..Len(check_out) :
        check_out[k].tag = "BuildScriptExecuted" /\ check_out[k].package_id = id}

\* C10: every Package built has the out_dir and the cfgs of the last
\* build-script-executed message for its id when the check was asked for and
\* such a message exists, and no out_dir and no cfgs otherwise; messages that
\* do not parse or are of another kind change nothing and fail nothing.
C10_TelemetryMerge ==
    /\ \A p \in 1..Len(packages) :
          LET runs == ScriptRuns(Records[p].id) IN
          IF cargo_features.load_out_dirs_from_check /\ runs # {}
          THEN LET last == CHOOSE k \in runs : \A j \in runs : j <= k IN
               /\ packages[p].out_dir = <<check_out[last].out_dir>>
               /\ packages[p].cfgs = check_out[last].cfgs
          ELSE /\ packages[p].out_dir = <<>>
               /\ packages[p].cfgs = <<>>
    /\ (pc = "done" /\ meta_exit = "ok" /\ check_exit # "spawn_failed") =>
          result.tag = "Ok" /\ result.packages = packages

\* two different reports for one package around a message that does not
\* parse, and a package without report, in the workspace returned
C10_Witness ==
    /\ pc = "done" /\ result.tag = "Ok"
    /\ Len(result.packages) = 2
    /\ \E p, q \in 1..2 :
          /\ ScriptRuns(Records[q].id) = {}
          /\ result.packages[q].out_dir = <<>>
          /\ ScriptRuns(Records[p].id) = {1, 3}
          /\ check_out[2].tag = "Err"
          /\ check_out[1].out_dir # check_out[3].out_dir
          /\ result.packages[p].out_dir = <<check_out[3].out_dir>>

====
